---------------------------- MODULE Spec2Model ----------------------------
(***************************************************************************)
(* Model of src/app.py: the ontology archive processor.                    *)
(*                                                                         *)
(* A text is a sequence of atoms.  An atom is one word (or one separator   *)
(* character) of the text, written in Latin transliteration: "Obyekt"      *)
(* stands for the word "Объект", " " for one blank.  Python's str          *)
(* operations (strip, lower, in, join, sorted) are computed on these       *)
(* sequences, so that trimming, case and containment stay observable.      *)
(* The empty text <<>> stands for '' and, in a template cell, also for an  *)
(* empty cell (None): the code treats both alike (`if cell:` is false,     *)
(* str() of it joins as '').                                               *)
(***************************************************************************)
EXTENDS Integers, Sequences, FiniteSets, TLC

\* ------------------------------------------------------------------ texts

\* 'Объект данных'
Marker == <<"Obyekt", " ", "dannyh">>

\* 'Базовая единица измерения'
StopMarker == <<"Bazovaya", " ", "edinitsa", " ", "izmereniya">>

\* 'Онтология ГРМ'
GrmName == <<"Ontologiya", " ", "GRM">>

\* 'шаблон.xlsx' and 'предзап.xlsx', the lower-cased file name keys
TemplateKey == <<"shablon", ".xlsx">>
RecordsKey == <<"predzap", ".xlsx">>

\* 'Отсутствует в файле записей'
StatusAbsent == <<"Otsutstvuet", " ", "v", " ", "fayle", " ", "zapisey">>

\* The atoms in code point order of their first character (blank, the
\* punctuation and the digits, Latin capitals, "_", Latin small letters,
\* Cyrillic capitals, Cyrillic small letters); str comparison is by code point.
Alphabet ==
    << " ", "(", ")", "*", ".xlsx", "/", "0", "1", "9", ":",
       "NULL", "NaN", "None", "Null", "_", "nan", "none", "null", "x",
       "ABV", "Bazovaya", "GRM", "Drugoe", "Kod", "Marka", "Naimenovanie", "Nasos",
       "Oborudovanie", "Obyekt", "Ontologiya", "Otsutstvuet", "Polnoe", "PredZap",
       "Status", "Tip", "Truby", "Shablon",
       "abv", "bazovaya", "v", "grm", "dannyh", "drugoe", "edinitsa", "zapisey",
       "iz", "izmereniya", "istochnika", "klassa", "kod", "marka", "naimenovanie",
       "nasos", "oborudovanie", "obyekt", "ontologiya", "otsutstvuet", "polnoe",
       "predzap", "sistemy", "status", "tip", "truby", "fayle", "shablon", "sht" >>

\* str.lower() of one atom
LowerAtom(a) ==
    CASE a = "NULL" -> "null"
      [] a = "NaN" -> "nan"
      [] a = "None" -> "none"
      [] a = "Null" -> "null"
      [] a = "ABV" -> "abv"
      [] a = "Bazovaya" -> "bazovaya"
      [] a = "GRM" -> "grm"
      [] a = "Drugoe" -> "drugoe"
      [] a = "Kod" -> "kod"
      [] a = "Marka" -> "marka"
      [] a = "Naimenovanie" -> "naimenovanie"
      [] a = "Nasos" -> "nasos"
      [] a = "Oborudovanie" -> "oborudovanie"
      [] a = "Obyekt" -> "obyekt"
      [] a = "Ontologiya" -> "ontologiya"
      [] a = "Otsutstvuet" -> "otsutstvuet"
      [] a = "Polnoe" -> "polnoe"
      [] a = "PredZap" -> "predzap"
      [] a = "Status" -> "status"
      [] a = "Tip" -> "tip"
      [] a = "Truby" -> "truby"
      [] a = "Shablon" -> "shablon"
      [] OTHER -> a

\* str.lower()
Lower(s) == [i \in 1..Len(s) |-> LowerAtom(s[i])]

\* str.strip(): leading and trailing blanks removed
RECURSIVE LStrip(_)
LStrip(s) == IF s # <<>> /\ Head(s) = " " THEN LStrip(Tail(s)) ELSE s

RECURSIVE RStrip(_)
RStrip(s) ==
    IF s # <<>> /\ s[Len(s)] = " " THEN RStrip(SubSeq(s, 1, Len(s) - 1)) ELSE s

Strip(s) == RStrip(LStrip(s))

\* `sub in s` on str: sub occurs in s as a contiguous part
Contains(sub, s) ==
    \E i \in 0..(Len(s) - Len(sub)) : SubSeq(s, i + 1, i + Len(sub)) = sub

\* `x in list`
InSeq(x, list) == \E i \in 1..Len(list) : list[i] = x

\* ' '.join(row_values)
RECURSIVE Join(_)
Join(row_values) ==
    IF row_values = <<>> THEN <<>>
    ELSE IF Len(row_values) = 1 THEN row_values[1]
    ELSE row_values[1] \o <<" ">> \o Join(Tail(row_values))

\* s < t on str: by code point, a proper prefix first
AtomRank(a) == CHOOSE i \in 1..Len(Alphabet) : Alphabet[i] = a

RECURSIVE StrLess(_, _)
StrLess(s, t) ==
    IF t = <<>> THEN FALSE
    ELSE IF s = <<>> THEN TRUE
    ELSE IF Head(s) = Head(t) THEN StrLess(Tail(s), Tail(t))
    ELSE AtomRank(Head(s)) < AtomRank(Head(t))

\* sorted(values) of a set of str
RECURSIVE Sorted(_)
Sorted(values) ==
    IF values = {} THEN <<>>
    ELSE LET least == CHOOSE v \in values : \A w \in values \ {v} : StrLess(v, w)
         IN <<least>> \o Sorted(values \ {least})

\* re.sub(r'[<>:"/\\|?*]', '_', attr)
UnsafeAtoms == {"/", ":", "*"}

CleanName(attr) ==
    [i \in 1..Len(attr) |-> IF attr[i] \in UnsafeAtoms THEN "_" ELSE attr[i]]

\* ------------------------------------------------------- schema extraction

\* ws.iter_rows(min_row=1, max_row=3)
max_row == 3

Min(a, b) == IF a < b THEN a ELSE b

\* ScanCells without the test for the stop marker.
RECURSIVE ScanCells_NoStop(_, _, _)
ScanCells_NoStop(row, j, attributes) ==
    IF j > Len(row) THEN [attributes |-> attributes, stop_attributes |-> FALSE]
    ELSE IF row[j] = <<>> THEN ScanCells_NoStop(row, j + 1, attributes)
    ELSE LET cell_str == Strip(row[j])
         IN IF cell_str # <<>> /\ Contains(Marker, cell_str)
            THEN ScanCells_NoStop(row, j + 1, Append(attributes, Marker))
            ELSE IF cell_str # <<>> /\ ~InSeq(cell_str, attributes)
            THEN ScanCells_NoStop(row, j + 1, Append(attributes, cell_str))
            ELSE ScanCells_NoStop(row, j + 1, attributes)

\* The cells of the schema row, left to right, from cell j on.
RECURSIVE ScanCells(_, _, _)
ScanCells(row, j, attributes) ==
    IF j > Len(row) THEN [attributes |-> attributes, stop_attributes |-> FALSE]
    ELSE IF row[j] = <<>> THEN ScanCells(row, j + 1, attributes)
    ELSE LET cell_str == Strip(row[j])
         IN IF Contains(StopMarker, cell_str)
            THEN [attributes |-> attributes, stop_attributes |-> TRUE]
            ELSE IF cell_str # <<>> /\ Contains(Marker, cell_str)
            THEN ScanCells(row, j + 1, Append(attributes, Marker))
            ELSE IF cell_str # <<>> /\ ~InSeq(cell_str, attributes)
            THEN ScanCells(row, j + 1, Append(attributes, cell_str))
            ELSE ScanCells(row, j + 1, attributes)

\* The rows 1..max_row of the sheet, from row r on.
RECURSIVE ScanRows(_, _, _, _)
ScanRows(grid, r, found_start, attributes) ==
    IF r > Min(max_row, Len(grid)) THEN attributes
    ELSE IF Contains(Marker, Join(grid[r])) /\ ~found_start
    THEN LET res == ScanCells(grid[r], 1, attributes)
         IN IF res.stop_attributes THEN res.attributes
            ELSE ScanRows(grid, r + 1, TRUE, res.attributes)
    ELSE ScanRows(grid, r + 1, found_start, attributes)

excluded_attributes ==
    << <<"Kod", " ", "iz", " ", "sistemy", " ", "istochnika">>,
       <<"Naimenovanie">>,
       <<"Naimenovanie", " ", "iz", " ", "sistemy", " ", "istochnika">>,
       <<"Polnoe", " ", "naimenovanie">>,
       <<"Status">> >>

IsExcluded(attr_lower) ==
    \E k \in 1..Len(excluded_attributes) :
        LET excluded_lower == Lower(excluded_attributes[k])
        IN \/ excluded_lower = attr_lower
           \/ Contains(excluded_lower, attr_lower)
           \/ Contains(attr_lower, excluded_lower)

RECURSIVE FilterAttributes(_)
FilterAttributes(attributes) ==
    IF attributes = <<>> THEN <<>>
    ELSE LET attr == Head(attributes)
             rest == FilterAttributes(Tail(attributes))
         IN IF Strip(attr) # <<>> /\ ~IsExcluded(Lower(Strip(attr)))
            THEN <<Strip(attr)>> \o rest
            ELSE rest

\* extract_attributes_from_template taking the sheet of a workbook that
\* cannot be loaded as if it had been read.
extract_attributes_from_template_NoExcept(file) ==
    FilterAttributes(ScanRows(file.grid, 1, FALSE, <<>>))

\* A workbook that cannot be loaded raises, and the schema is then empty.
extract_attributes_from_template(file) ==
    FilterAttributes(IF file.readable THEN ScanRows(file.grid, 1, FALSE, <<>>)
                     ELSE <<>>)


\* ------------------------------------------------------------ file system

\* A node of the extracted tree: a directory with its entries in listing
\* order, or a spreadsheet file.  A template file holds its sheet as the rows
\* of cell texts; a records file holds the column labels pandas delivers and
\* the data rows below them, one cell per column.  A file that is not
\* `readable` makes the reading library raise.
None == [name |-> <<>>, kind |-> "none", kids |-> <<>>, readable |-> FALSE,
         grid |-> <<>>, header |-> <<>>, rows |-> <<>>]

Dir(name, kids) == [None EXCEPT !.name = name, !.kind = "dir", !.kids = kids]

TemplateFile(name, readable, grid) ==
    [None EXCEPT !.name = name, !.kind = "file", !.readable = readable,
                 !.grid = grid]

RecordsFile(name, readable, header, rows) ==
    [None EXCEPT !.name = name, !.kind = "file", !.readable = readable,
                 !.header = header, !.rows = rows]

is_dir(node) == node.kind = "dir"
is_file(node) == node.kind = "file"

\* A missing cell of a records sheet (NaN): pd.notna is false of it alone.
NA == <<"#NA">>
notna(cell) == cell # NA

\* --------------------------------------------------- columns, match, values

extract_columns_from_records(file) ==
    IF file.readable THEN [i \in 1..Len(file.header) |-> Strip(file.header[i])]
    ELSE <<>>

\* match_attributes comparing without regard to letter case.
match_attributes_NoCase(template_attributes, record_columns) ==
    LET cleaned == [i \in 1..Len(template_attributes) |-> Strip(template_attributes[i])]
        found(a) == \E i \in 1..Len(record_columns) : Lower(record_columns[i]) = Lower(a)
    IN [matched |-> SelectSeq(cleaned, found),
        missing |-> SelectSeq(cleaned, LAMBDA a : ~found(a))]

RECURSIVE match_attributes(_, _)
match_attributes(template_attributes, record_columns) ==
    IF template_attributes = <<>> THEN [matched |-> <<>>, missing |-> <<>>]
    ELSE LET attr_clean == Strip(Head(template_attributes))
             rest == match_attributes(Tail(template_attributes), record_columns)
         IN IF InSeq(attr_clean, record_columns)
            THEN [rest EXCEPT !.matched = <<attr_clean>> \o @]
            ELSE [rest EXCEPT !.missing = <<attr_clean>> \o @]

\* A dict in insertion order: a sequence of (key, value) with distinct keys.
DictSet(d, k, v) ==
    IF \E i \in 1..Len(d) : d[i].key = k
    THEN [i \in 1..Len(d) |-> IF d[i].key = k THEN [key |-> k, value |-> v] ELSE d[i]]
    ELSE Append(d, [key |-> k, value |-> v])

DictHas(d, k) == \E i \in 1..Len(d) : d[i].key = k
DictGet(d, k) == d[CHOOSE i \in 1..Len(d) : d[i].key = k].value

\* IsKept without the list of texts that stand for no value.
IsKept_NonEmpty(value) == value # <<>>

\* value and value.lower() not in ['', 'nan', 'none', 'null']
IsKept(value) ==
    value # <<>> /\ Lower(value) \notin {<<>>, <<"nan">>, <<"none">>, <<"null">>}

\* The record of one data row: the kept values of the matched attributes.
RECURSIVE RowRecord(_, _, _, _)
RowRecord(row, columns, matched_attributes, record_values) ==
    IF matched_attributes = <<>> THEN record_values
    ELSE LET attr == Head(matched_attributes)
             cell == row[CHOOSE i \in 1..Len(columns) : columns[i] = attr]
             value == Strip(cell)
         IN RowRecord(row, columns, Tail(matched_attributes),
                      IF InSeq(attr, columns) /\ notna(cell) /\ IsKept(value)
                      THEN DictSet(record_values, attr, value)
                      ELSE record_values)

RECURSIVE RowsValues(_, _, _)
RowsValues(rows, columns, matched_attributes) ==
    IF rows = <<>> THEN <<>>
    ELSE LET record_values == RowRecord(Head(rows), columns, matched_attributes, <<>>)
             rest == RowsValues(Tail(rows), columns, matched_attributes)
         IN IF record_values # <<>> THEN <<record_values>> \o rest ELSE rest

\* Two columns with one label after trimming make row[attr] a Series, whose
\* truth value raises on the first data row; the except clause then returns
\* the values gathered so far, which are none.
AmbiguousColumn(columns, matched_attributes) ==
    \E k \in 1..Len(matched_attributes) :
        Cardinality({i \in 1..Len(columns) : columns[i] = matched_attributes[k]}) > 1

extract_values_from_records(file, matched_attributes) ==
    IF ~file.readable THEN <<>>
    ELSE LET columns == [i \in 1..Len(file.header) |-> Strip(file.header[i])]
         IN IF file.rows # <<>> /\ AmbiguousColumn(columns, matched_attributes)
            THEN <<>>
            ELSE RowsValues(file.rows, columns, matched_attributes)

\* ---------------------------------------------------------------- the walk

\* extracted_path.rglob('Онтология ГРМ'): the entries of that name, those of
\* a directory before those of its subdirectories.
RECURSIVE RGlobDirs(_, _)
RECURSIVE RGlob(_, _)
RGlobDirs(kids, name) ==
    IF kids = <<>> THEN <<>>
    ELSE (IF is_dir(Head(kids)) THEN RGlob(Head(kids).kids, name) ELSE <<>>)
         \o RGlobDirs(Tail(kids), name)

RGlob(kids, name) ==
    SelectSeq(kids, LAMBDA n : n.name = name) \o RGlobDirs(kids, name)

\* The root of the walk, or None.
ResolveRoot(items) ==
    LET found == SelectSeq(RGlob(items, GrmName), is_dir)
    IN IF found # <<>> THEN found[1]
       ELSE IF items # <<>> /\ is_dir(items[1]) THEN items[1]
       ELSE None

RECURSIVE TemplateDirs(_, _)
TemplateDirs(class_name, entries) ==
    IF entries = <<>> THEN <<>>
    ELSE (IF is_dir(Head(entries))
          THEN << [class_name |-> class_name, template_name |-> Head(entries).name,
                   template_dir |-> Head(entries)] >>
          ELSE <<>>)
         \o TemplateDirs(class_name, Tail(entries))

RECURSIVE CollectDirs(_)
CollectDirs(class_dirs) ==
    IF class_dirs = <<>> THEN <<>>
    ELSE (IF is_dir(Head(class_dirs))
          THEN TemplateDirs(Head(class_dirs).name, Head(class_dirs).kids)
          ELSE <<>>)
         \o CollectDirs(Tail(class_dirs))

\* The file scan of one template folder: the last match of each key wins.
RECURSIVE PickFiles(_, _, _)
PickFiles(files, template_file, records_file) ==
    IF files = <<>> THEN [template_file |-> template_file, records_file |-> records_file]
    ELSE LET file == Head(files)
             filename == Lower(file.name)
         IN IF is_file(file) /\ Contains(TemplateKey, filename)
            THEN PickFiles(Tail(files), file, records_file)
            ELSE IF is_file(file) /\ Contains(RecordsKey, filename)
            THEN PickFiles(Tail(files), template_file, file)
            ELSE PickFiles(Tail(files), template_file, records_file)

\* HasBothFiles asking for the template file alone.
HasBothFiles_TemplateOnly(template_file, records_file) == template_file # None

HasBothFiles(template_file, records_file) ==
    template_file # None /\ records_file # None

MissingStats(class_name, template_name, missing_attrs) ==
    [i \in 1..Len(missing_attrs) |->
        [Klass |-> class_name, Shablon |-> template_name,
         Atribut |-> missing_attrs[i], Status |-> StatusAbsent]]

RecordItems(class_name, template_name, record) ==
    [i \in 1..Len(record) |->
        [Atribut |-> record[i].key, Shablon |-> template_name,
         Klass |-> class_name, Znachenie |-> record[i].value]]

RECURSIVE FormRecords(_, _, _)
FormRecords(class_name, template_name, values) ==
    IF values = <<>> THEN <<>>
    ELSE RecordItems(class_name, template_name, Head(values))
         \o FormRecords(class_name, template_name, Tail(values))

\* ------------------------------------------------------------------ output

RECURSIVE collapse_duplicate_values(_)
collapse_duplicate_values(data) ==
    IF data = <<>> THEN <<>>
    ELSE LET item == data[Len(data)]
             collapsed == collapse_duplicate_values(SubSeq(data, 1, Len(data) - 1))
             had == IF DictHas(collapsed, item.Atribut)
                    THEN DictGet(collapsed, item.Atribut) ELSE {}
         IN DictSet(collapsed, item.Atribut,
                    IF item.Znachenie # <<>> THEN had \cup {item.Znachenie} ELSE had)

\* The DataFrame of one reference file.
ReferenceRows(attr, values) ==
    LET sorted == Sorted(values)
    IN [i \in 1..Len(sorted) |-> [Atribut |-> attr, Znachenie |-> sorted[i]]]

ReferenceFileName(attr) == CleanName(attr) \o <<".xlsx">>

\* The reference directory after the files of collapsed_data are saved in
\* order: a map from file name to the rows of the file.
RECURSIVE WriteReferences(_, _)
WriteReferences(collapsed_data, dir) ==
    IF collapsed_data = <<>> THEN dir
    ELSE LET attr == Head(collapsed_data).key
             values == Head(collapsed_data).value
             filename == ReferenceFileName(attr)
         IN WriteReferences(Tail(collapsed_data),
               IF values # {}
               THEN [f \in DOMAIN dir \cup {filename} |->
                        IF f = filename THEN ReferenceRows(attr, values) ELSE dir[f]]
               ELSE dir)


\* ------------------------------------------------------------------ inputs

\* Bounds of the inputs drawn below.
MaxCells == 3
MaxCols == 2
MaxDataRows == 2
MaxTemplates == 2

RECURSIVE SeqsUpTo(_, _)
SeqsUpTo(S, n) ==
    IF n = 0 THEN {<<>>}
    ELSE LET shorter == SeqsUpTo(S, n - 1)
         IN shorter \cup {Append(q, x) : q \in {t \in shorter : Len(t) = n - 1}, x \in S}

SeqsOfLen(S, n) == {q \in SeqsUpTo(S, n) : Len(q) = n}

Oborudovanie == <<"Oborudovanie">>
Truby == <<"Truby">>
Nasos == <<"Nasos">>
Marka == <<"Marka">>
Tip == <<"Tip">>
Drugoe == <<"Drugoe">>
ABV == <<"ABV">>

TemplateFileName(t) == t \o <<"_", "Shablon", ".xlsx">>
RecordsFileName(t) == t \o <<"_", "PredZap", ".xlsx">>

TemplateFolder(t, grid, header, rows) ==
    Dir(t, << TemplateFile(TemplateFileName(t), TRUE, grid),
              RecordsFile(RecordsFileName(t), TRUE, header, rows) >>)

Zip(top) == [given |-> TRUE, kind |-> "zip", top |-> top]

OneFolderArchive(grid, header, rows) ==
    Zip(<< Dir(GrmName, << Dir(Oborudovanie,
                               << TemplateFolder(Nasos, grid, header, rows) >>) >>) >>)

\* End-to-end scenarios A and B of the specification.
GridA == << <<>>, <<Marker, Marka, StopMarker, <<"sht">>>> >>
ScenarioA == OneFolderArchive(GridA, <<Marka, Drugoe>>, << <<ABV, <<"x">>>> >>)
ScenarioB == OneFolderArchive(GridA, <<Drugoe>>, << <<<<"x">>>> >>)

\* Template sheets: a second row of any cells, between rows that are empty,
\* hold the marker in a cell or hold it only across two cells, and a fourth
\* row with the marker.
CellPool ==
    { <<>>, Marker, <<"Obyekt", " ", "dannyh", " ", "(", "kod", ")">>, StopMarker,
      <<" ", "Marka", " ">>, <<"Naimenovanie", " ", "klassa">> }

SideRows == { <<>>, <<Tip, Marker, Drugoe>>, << <<"Obyekt">>, <<"dannyh">> >> }

Grids ==
    { <<r1, r2, r3, <<Marker, Tip>>>> :
        r1 \in SideRows, r2 \in SeqsUpTo(CellPool, MaxCells),
        r3 \in {<<>>, <<Tip, Marker, Drugoe>>} }

SchemaArchives ==
    { OneFolderArchive(g, <<Marka, Drugoe>>, << <<ABV, <<"x">>>> >>) : g \in Grids }

\* Records sheets: any labels over a fixed template, and any cells under
\* fixed labels.
GridB == << <<>>, <<Marker, <<" ", "Marka", " ">>, Tip, StopMarker>> >>

LabelPool ==
    { Marka, <<"Marka", " ">>, <<"marka">>, <<"tip">>, Marker, Drugoe }

HeaderArchives ==
    { OneFolderArchive(GridB, h, << [i \in 1..Len(h) |-> ABV] >>) :
        h \in SeqsUpTo(LabelPool, MaxCols) }

ValuePool == { NA, <<" ", "ABV", " ">>, <<" ", "Null", " ">>, <<" ">> }

ValueArchives ==
    { OneFolderArchive(GridB, <<Marka, Tip>>, rows) :
        rows \in SeqsUpTo(SeqsOfLen(ValuePool, 2), MaxDataRows) }

\* Trees: a first class of up to MaxTemplates template folders of any kind,
\* and possibly a second class with one folder.
GridSlash == << <<Marker, <<"x", "/", "x">>, <<"x", ":", "x">>, Marka>> >>

FullFolder(t) ==
    TemplateFolder(t, GridA, <<Marka, Drugoe>>, << <<ABV, <<"x">>>>, <<<<"9">>, NA>> >>)

SlashFolder(t) ==
    TemplateFolder(t, GridSlash, <<<<"x", "/", "x">>, <<"x", ":", "x">>, Marker>>,
                   << <<ABV, <<"9">>, NA>> >>)

NoRecordsFolder(t) == Dir(t, << TemplateFile(TemplateFileName(t), TRUE, GridA) >>)

FolderKinds(t) ==
    { FullFolder(t),
      SlashFolder(t),
      NoRecordsFolder(t),
      TemplateFolder(t, GridA, <<Marker, Drugoe>>, << <<ABV, <<"x">>>> >>),
      TemplateFolder(t, << <<Tip, Marka>> >>, <<Marka>>, << <<ABV>> >>),
      Dir(t, << RecordsFile(RecordsFileName(t), TRUE, <<Marka>>, << <<ABV>> >>) >>),
      Dir(t, <<>>),
      Dir(t, << TemplateFile(TemplateFileName(t), FALSE, GridA),
                RecordsFile(RecordsFileName(t), TRUE, <<Marka>>, << <<ABV>> >>) >>),
      Dir(t, << TemplateFile(TemplateFileName(t), TRUE, GridA),
                RecordsFile(RecordsFileName(t), FALSE, <<Marka>>, << <<ABV>> >>) >>) }

TemplateNames == << Nasos, <<"Nasos", "_", "1">>, <<"Nasos", "_", "9">> >>

RECURSIVE ClassContents(_)
ClassContents(n) ==
    IF n = 0 THEN {<<>>}
    ELSE LET shorter == ClassContents(n - 1)
         IN shorter \cup
            { Append(q, f) : q \in {t \in shorter : Len(t) = n - 1},
                             f \in FolderKinds(TemplateNames[n]) }

SecondClasses ==
    { <<>>,
      <<TemplateFile(<<"x", ".xlsx">>, TRUE, GridA)>>,
      <<Dir(Truby, <<FullFolder(Nasos)>>)>>,
      <<Dir(Truby, <<SlashFolder(Nasos)>>)>>,
      <<Dir(Truby, <<NoRecordsFolder(Nasos)>>)>> }

TreeArchives ==
    { Zip(<< Dir(GrmName, <<Dir(Oborudovanie, c1)>> \o c2) >>) :
        c1 \in ClassContents(MaxTemplates), c2 \in SecondClasses }

\* Top levels: no root of the expected name, files beside the directory, the
\* name at depth or on a file, nothing at all; and archives that do not open.
PlainClasses == << Dir(Oborudovanie, << TemplateFolder(Nasos, GridA, <<Drugoe>>, << <<ABV>> >>) >>) >>
ReadmeFile == TemplateFile(<<"x">>, TRUE, <<>>)

LayoutArchives ==
    { Zip(<< Dir(<<"x">>, PlainClasses) >>),
      Zip(<< ReadmeFile, Dir(<<"x">>, PlainClasses) >>),
      Zip(<< Dir(<<"x">>, PlainClasses), ReadmeFile >>),
      Zip(<< ReadmeFile >>),
      Zip(<< Dir(<<"x">>, << Dir(GrmName, PlainClasses) >>) >>),
      Zip(<< ReadmeFile, Dir(<<"x">>, << Dir(GrmName, PlainClasses) >>) >>),
      Zip(<< TemplateFile(GrmName, TRUE, <<>>), Dir(<<"x">>, PlainClasses) >>),
      Zip(<< Dir(GrmName, <<>>) >>),
      Zip(<<>>),
      [given |-> TRUE, kind |-> "bad", top |-> <<>>],
      [given |-> TRUE, kind |-> "unreadable", top |-> <<>>],
      [given |-> FALSE, kind |-> "zip", top |-> <<>>] }

Archives ==
    {ScenarioA, ScenarioB} \cup SchemaArchives \cup HeaderArchives
        \cup ValueArchives \cup TreeArchives \cup LayoutArchives


\* ------------------------------------------------------------------- state

VARIABLES
    archive,              \* the uploaded file (zip_file_path and what it holds)
    pc,                   \* where process_ontology_archive stands
    temp_dir,             \* the workspace on disk
    all_dirs, idx,        \* the template folders of the walk, and how many are done
    all_data, missing_stats,
    template_file, records_file, template_attributes, record_columns,
    matched_attrs, missing_attrs, values,   \* the locals of the loop body
    collapsed_data, created_files,
    ret,                  \* the returned (path, report, files)
    progress_callback,    \* the callback handed to process_extracted_structure
    callback_calls,       \* the calls process_extracted_structure made on it
    progress              \* the calls made on the sink, progress(fraction, desc)

vars == << archive, pc, temp_dir, all_dirs, idx, all_data, missing_stats,
           template_file, records_file, template_attributes, record_columns,
           matched_attrs, missing_attrs, values, collapsed_data, created_files, ret,
           progress_callback, callback_calls, progress >>

walk_vars == << all_dirs, idx, all_data, missing_stats, template_file, records_file,
                template_attributes, record_columns, matched_attrs, missing_attrs,
                values, callback_calls >>

\* A number of the progress arithmetic, kept exact as num / den.
Frac(num, den) == [num |-> num, den |-> den]

FracAdd(a, b) == Frac(a.num * b.den + b.num * a.den, a.den * b.den)
FracMul(a, b) == Frac(a.num * b.num, a.den * b.den)
FracDiv(a, b) == Frac(a.num * b.den, a.den * b.num)
FracLeq(a, b) == a.num * b.den <= b.num * a.den
FracEq(a, b) == a.num * b.den = b.num * a.den

\* One call on the sink: progress(fraction, desc=desc)
SinkCall(fraction, desc) == [fraction |-> fraction, desc |-> desc]

\* f"Обработка: {class_name}/{template_name}"
Message(class_name, template_name) ==
    <<"Obrabotka", ":", " ">> \o class_name \o <<"/">> \o template_name

\* Percent counting the passes that have ended, without the one at hand.
Percent_Ended(i, total_dirs) == FracMul(Frac(i, total_dirs), Frac(100, 1))

\* progress = (idx + 1) / total_dirs * 100
Percent(i, total_dirs) == FracMul(Frac(i + 1, total_dirs), Frac(100, 1))

\* update_progress_callback(pct, msg): progress(0.2 + pct/100 * 0.6, desc=msg)
update_progress_callback(pct, msg) ==
    SinkCall(FracAdd(Frac(2, 10), FracMul(FracDiv(pct, Frac(100, 1)), Frac(6, 10))), msg)

\* The callbacks: none (progress_callback=None), one that does nothing, and
\* update_progress_callback, whose call on the sink raises at the call for
\* the folder raises_at (at no call, if 0).
NoCallback == [kind |-> "None", raises_at |-> 0]
NoOpCallback == [kind |-> "no-op", raises_at |-> 0]
UpdateProgress(raises_at) == [kind |-> "update_progress_callback", raises_at |-> raises_at]

Callbacks ==
    {NoCallback, NoOpCallback} \cup {UpdateProgress(k) : k \in 0..(MaxTemplates + 1)}

\* The workspace before tempfile.mkdtemp.
NoWorkspace ==
    [created |-> FALSE, exists |-> FALSE, extracted |-> <<>>, results |-> FALSE,
     references |-> <<>>, summary |-> <<>>, summary_file |-> FALSE,
     stats |-> <<>>, stats_file |-> FALSE, readme |-> FALSE, zip |-> FALSE]

\* Rmtree leaving the directory as it is.
Rmtree_Skipped(dir) == dir

\* shutil.rmtree(temp_dir, ignore_errors=True)
Rmtree(dir) == [NoWorkspace EXCEPT !.created = dir.created]

NotReturned == [path |-> "None", report |-> "", files |-> <<>>]
Failure(message) == [path |-> "None", report |-> message, files |-> <<>>]
Success == [path |-> "results.zip", report |-> "report", files |-> <<"results.zip">>]

\* return None, <message>, [] after the workspace is removed
FatalReturn(message) ==
    /\ temp_dir' = Rmtree(temp_dir)
    /\ ret' = Failure(message)
    /\ pc' = "returned"
    /\ UNCHANGED progress

\* The state at the call of process_ontology_archive(zip_file_path, progress)
\* on the given file with the given callback for the walk.
Start(zip_file_path, callback) ==
    /\ archive = zip_file_path
    /\ progress_callback = callback
    /\ callback_calls = <<>>
    /\ progress = <<>>
    /\ pc = "start"
    /\ temp_dir = NoWorkspace
    /\ all_dirs = <<>>
    /\ idx = 0
    /\ all_data = <<>>
    /\ missing_stats = <<>>
    /\ template_file = None
    /\ records_file = None
    /\ template_attributes = <<>>
    /\ record_columns = <<>>
    /\ matched_attrs = <<>>
    /\ missing_attrs = <<>>
    /\ values = <<>>
    /\ collapsed_data = <<>>
    /\ created_files = <<>>
    /\ ret = NotReturned

Init == \E zip_file_path \in Archives : Start(zip_file_path, UpdateProgress(0))

\* ----------------------------------------------------------------- actions

\* if not zip_file_path: return
NoArchive ==
    /\ pc = "start"
    /\ ~archive.given
    /\ ret' = Failure("no archive")
    /\ pc' = "returned"
    /\ UNCHANGED << archive, progress_callback, temp_dir, walk_vars, collapsed_data,
                    created_files, progress >>

\* tempfile.mkdtemp, progress(0, ...), and extracted_dir.mkdir
CreateWorkspace ==
    /\ pc = "start"
    /\ archive.given
    /\ temp_dir' = [NoWorkspace EXCEPT !.created = TRUE, !.exists = TRUE]
    /\ progress' = Append(progress, SinkCall(Frac(0, 1), <<"Raspakovka", " ", "arhiva">>))
    /\ pc' = "unpack"
    /\ UNCHANGED << archive, progress_callback, walk_vars, collapsed_data, created_files, ret >>

\* except zipfile.BadZipFile
UnpackBadZip ==
    /\ pc = "unpack"
    /\ archive.kind = "bad"
    /\ FatalReturn("bad zip")
    /\ UNCHANGED << archive, progress_callback, walk_vars, collapsed_data, created_files >>

\* Any other exception of ZipFile or extractall reaches the outer except.
UnpackRaises ==
    /\ pc = "unpack"
    /\ archive.kind = "unreadable"
    /\ FatalReturn("critical")
    /\ UNCHANGED << archive, progress_callback, walk_vars, collapsed_data, created_files >>

\* if not extracted_items
UnpackEmpty ==
    /\ pc = "unpack"
    /\ archive.kind = "zip"
    /\ archive.top = <<>>
    /\ FatalReturn("empty archive")
    /\ UNCHANGED << archive, progress_callback, walk_vars, collapsed_data, created_files >>

UnpackOk ==
    /\ pc = "unpack"
    /\ archive.kind = "zip"
    /\ archive.top # <<>>
    /\ temp_dir' = [temp_dir EXCEPT !.extracted = archive.top]
    /\ progress' = progress
           \o << SinkCall(Frac(2, 10), <<"Arhiv", " ", "raspakovan">>),
                 SinkCall(Frac(2, 10), <<"Analiz", " ", "struktury", " ", "dannyh">>) >>
    /\ pc' = "structure"
    /\ UNCHANGED << archive, progress_callback, walk_vars, collapsed_data, created_files, ret >>

\* raise ValueError, caught by the except around process_extracted_structure
StructureError ==
    /\ pc = "structure"
    /\ ResolveRoot(temp_dir.extracted) = None
    /\ FatalReturn("processing error")
    /\ UNCHANGED << archive, progress_callback, walk_vars, collapsed_data, created_files >>

CollectAllDirs ==
    /\ pc = "structure"
    /\ ResolveRoot(temp_dir.extracted) # None
    /\ all_dirs' = CollectDirs(ResolveRoot(temp_dir.extracted).kids)
    /\ idx' = 0
    /\ pc' = "walk"
    /\ UNCHANGED << archive, progress_callback, temp_dir, all_data, missing_stats, template_file,
                    records_file, template_attributes, record_columns, matched_attrs,
                    missing_attrs, values, collapsed_data, created_files, ret,
                    callback_calls, progress >>

\* The call of the callback at the head of the loop body, made before the
\* folder is looked at: what the callback was given, and the loop's idx then.
CallbackCall(i, dirs) ==
    [progress |-> Percent(i, Len(dirs)),
     message |-> Message(dirs[i + 1].class_name, dirs[i + 1].template_name),
     idx |-> i]

\* The callback raises at this pass of the loop.
Raises(callback, i) ==
    callback.kind = "update_progress_callback" /\ callback.raises_at = i + 1

\* The exception of the callback leaves process_extracted_structure and is
\* caught by the except around it.
ProgressCallbackRaises ==
    /\ pc = "walk"
    /\ idx < Len(all_dirs)
    /\ Raises(progress_callback, idx)
    /\ callback_calls' = Append(callback_calls, CallbackCall(idx, all_dirs))
    /\ FatalReturn("processing error")
    /\ UNCHANGED << archive, progress_callback, all_dirs, idx, all_data, missing_stats,
                    template_file, records_file, template_attributes, record_columns,
                    matched_attrs, missing_attrs, values, collapsed_data, created_files >>

\* One pass of the loop over all_dirs.
ProcessFolder ==
    /\ pc = "walk"
    /\ idx < Len(all_dirs)
    /\ ~Raises(progress_callback, idx)
    /\ IF progress_callback.kind # "None"
       THEN callback_calls' = Append(callback_calls, CallbackCall(idx, all_dirs))
       ELSE UNCHANGED callback_calls
    /\ IF progress_callback.kind = "update_progress_callback"
       THEN LET call == CallbackCall(idx, all_dirs)
            IN progress' = Append(progress,
                               update_progress_callback(call.progress, call.message))
       ELSE UNCHANGED progress
    /\ LET d == all_dirs[idx + 1]
           picked == PickFiles(d.template_dir.kids, None, None)
           both == HasBothFiles(picked.template_file, picked.records_file)
           schema == extract_attributes_from_template(picked.template_file)
           columns == extract_columns_from_records(picked.records_file)
           m == match_attributes(schema, columns)
           vals == extract_values_from_records(picked.records_file, m.matched)
       IN /\ template_file' = picked.template_file
          /\ records_file' = picked.records_file
          /\ template_attributes' = IF both THEN schema ELSE template_attributes
          /\ IF both /\ schema # <<>>
             THEN /\ record_columns' = columns
                  /\ matched_attrs' = m.matched
                  /\ missing_attrs' = m.missing
                  /\ missing_stats' = missing_stats
                         \o MissingStats(d.class_name, d.template_name, m.missing)
                  /\ IF m.matched # <<>>
                     THEN /\ values' = vals
                          /\ all_data' = all_data
                                 \o FormRecords(d.class_name, d.template_name, vals)
                     ELSE UNCHANGED << values, all_data >>
             ELSE UNCHANGED << record_columns, matched_attrs, missing_attrs,
                               missing_stats, values, all_data >>
    /\ idx' = idx + 1
    /\ UNCHANGED << archive, progress_callback, pc, temp_dir, all_dirs, collapsed_data, created_files, ret >>

\* if not all_data and not missing_stats
WalkEmpty ==
    /\ pc = "walk"
    /\ idx = Len(all_dirs)
    /\ all_data = <<>> /\ missing_stats = <<>>
    /\ FatalReturn("no data")
    /\ UNCHANGED << archive, progress_callback, walk_vars, collapsed_data, created_files >>

WalkDone ==
    /\ pc = "walk"
    /\ idx = Len(all_dirs)
    /\ ~(all_data = <<>> /\ missing_stats = <<>>)
    /\ progress' = progress
           \o << SinkCall(Frac(8, 10), <<"Dannye", " ", "obrabotany">>),
                 SinkCall(Frac(8, 10), <<"Sohranenie", " ", "rezultatov">>) >>
    /\ pc' = "write"
    /\ UNCHANGED << archive, progress_callback, temp_dir, walk_vars, collapsed_data, created_files, ret >>

\* The keys of created_files.
ReferenceKey(filename) == <<"spravochniki", "/">> \o filename

RECURSIVE ReferenceKeys(_, _)
ReferenceKeys(collapsed, created) ==
    IF collapsed = <<>> THEN created
    ELSE ReferenceKeys(Tail(collapsed),
            IF Head(collapsed).value # {}
            THEN DictSet(created, ReferenceKey(ReferenceFileName(Head(collapsed).key)), TRUE)
            ELSE created)

create_output_files ==
    LET collapsed == IF all_data # <<>> THEN collapse_duplicate_values(all_data) ELSE <<>>
        refs == ReferenceKeys(collapsed, <<>>)
        with_summary == IF all_data # <<>> THEN DictSet(refs, <<"svodnyy.xlsx">>, TRUE)
                        ELSE refs
        with_stats == IF missing_stats # <<>>
                      THEN DictSet(with_summary, <<"statistika.xlsx">>, TRUE)
                      ELSE with_summary
    IN /\ collapsed_data' = collapsed
       /\ created_files' = DictSet(with_stats, <<"readme.txt">>, TRUE)
       /\ temp_dir' = [temp_dir EXCEPT
              !.results = TRUE,
              !.references = WriteReferences(collapsed, <<>>),
              !.summary = all_data,
              !.summary_file = (all_data # <<>>),
              !.stats = missing_stats,
              !.stats_file = (missing_stats # <<>>),
              !.readme = TRUE]

CreateOutputFiles ==
    /\ pc = "write"
    /\ create_output_files
    /\ progress' = Append(progress,
                       SinkCall(Frac(9, 10), <<"Upakovka", " ", "rezultatov">>))
    /\ pc' = "package"
    /\ UNCHANGED << archive, progress_callback, walk_vars, ret >>

\* An exception while the files are written reaches the outer except.
CreateOutputFilesRaises ==
    /\ pc = "write"
    /\ FatalReturn("critical")
    /\ UNCHANGED << archive, progress_callback, walk_vars, collapsed_data, created_files >>

\* create_results_zip, the report, and the return
CreateResultsZip ==
    /\ pc = "package"
    /\ temp_dir' = [temp_dir EXCEPT !.zip = TRUE]
    /\ progress' = Append(progress, SinkCall(Frac(1, 1), <<"Gotovo">>))
    /\ ret' = Success
    /\ pc' = "returned"
    /\ UNCHANGED << archive, progress_callback, walk_vars, collapsed_data, created_files >>

\* An exception while the archive is packed or the report is built.
CreateResultsZipRaises ==
    /\ pc = "package"
    /\ FatalReturn("critical")
    /\ UNCHANGED << archive, progress_callback, walk_vars, collapsed_data, created_files >>

Next ==
    \/ NoArchive
    \/ CreateWorkspace
    \/ UnpackBadZip
    \/ UnpackRaises
    \/ UnpackEmpty
    \/ UnpackOk
    \/ StructureError
    \/ CollectAllDirs
    \/ ProcessFolder
    \/ WalkEmpty
    \/ WalkDone
    \/ CreateOutputFiles
    \/ CreateOutputFilesRaises
    \/ CreateResultsZip
    \/ CreateResultsZipRaises

Spec == Init /\ [][Next]_vars

\* The run with any of the callbacks, on the archives with a tree of folders
\* and on those of the other top levels.
InitInjected ==
    \E zip_file_path \in TreeArchives \cup LayoutArchives, callback \in Callbacks :
        Start(zip_file_path, callback)

NextInjected == Next \/ ProgressCallbackRaises

SpecInjected == InitInjected /\ [][NextInjected]_vars


\* ------------------------------------------------------------- properties

Range(q) == {q[i] : i \in 1..Len(q)}

NoDuplicates(q) == \A i, j \in 1..Len(q) : q[i] = q[j] => i = j

\* q keeps the relative order of `of`: it is `of` with some elements left out.
KeepsOrderOf(q, of) == q = SelectSeq(of, LAMBDA a : a \in Range(q))

\* The loop body has just matched a schema against the columns of a folder:
\* the locals are those of the folder all_dirs[idx].
Matched ==
    /\ idx > 0
    /\ template_file # None /\ records_file # None
    /\ template_attributes # <<>>

\* C1: match_attributes partitions the schema: every schema attribute is in
\* exactly one of matched and missing, the two share nothing, neither holds
\* an attribute twice, and each keeps the schema's order.
C1_Partition ==
    Matched =>
        /\ Range(matched_attrs) \cup Range(missing_attrs) = Range(template_attributes)
        /\ Range(matched_attrs) \cap Range(missing_attrs) = {}
        /\ NoDuplicates(matched_attrs)
        /\ NoDuplicates(missing_attrs)
        /\ KeepsOrderOf(matched_attrs, template_attributes)
        /\ KeepsOrderOf(missing_attrs, template_attributes)

\* The folder of scenario A has been processed and the run has returned.
C2_Witness ==
    /\ archive = ScenarioA
    /\ pc = "returned"
    /\ ret = Success

RecordA ==
    [Atribut |-> Marka, Shablon |-> Nasos, Klass |-> Oborudovanie, Znachenie |-> ABV]

\* C2 as stated: in scenario A the schema is exactly <<Marka>>, matched is
\* <<Marka>>, missing is empty, no missing stat is produced, and the one
\* extracted record is RecordA.
C2_Original ==
    (archive = ScenarioA /\ idx = 1) =>
        /\ template_attributes = <<Marka>>
        /\ matched_attrs = <<Marka>>
        /\ missing_attrs = <<>>
        /\ missing_stats = <<>>
        /\ all_data = <<RecordA>>

\* C2 as amended: in scenario A the schema is <<Marker, Marka>> (the marker
\* cell is itself collected, as the literal marker), matched is <<Marka>>,
\* missing is <<Marker>> with one missing stat for it, and the one extracted
\* record is RecordA.
C2_ScenarioA ==
    (archive = ScenarioA /\ idx = 1) =>
        /\ template_attributes = <<Marker, Marka>>
        /\ matched_attrs = <<Marka>>
        /\ missing_attrs = <<Marker>>
        /\ missing_stats = << [Klass |-> Oborudovanie, Shablon |-> Nasos,
                               Atribut |-> Marker, Status |-> StatusAbsent] >>
        /\ all_data = <<RecordA>>

\* The schema C3 describes.  The first of the rows 1..max_row with the marker
\* in a cell is the schema row, and i its first such cell; the schema is the
\* trimmed non-empty texts of the cells from i up to the first cell that
\* contains the stop marker, each once, without the excluded names.  The
\* reading is the one closest to the code: the marker cell itself counts (as
\* the literal marker) and a repeated name counts once.
HasMarkerCell(row) == \E i \in 1..Len(row) : Contains(Marker, row[i])

FirstMarkerCell(row) ==
    CHOOSE i \in 1..Len(row) :
        Contains(Marker, row[i]) /\ \A k \in 1..(i - 1) : ~Contains(Marker, row[k])

StopCell(row) ==
    IF \E i \in 1..Len(row) : Contains(StopMarker, row[i])
    THEN CHOOSE i \in 1..Len(row) :
            Contains(StopMarker, row[i])
            /\ \A k \in 1..(i - 1) : ~Contains(StopMarker, row[k])
    ELSE Len(row) + 1

RECURSIVE Deduplicated(_)
Deduplicated(q) ==
    IF q = <<>> THEN <<>>
    ELSE LET front == Deduplicated(SubSeq(q, 1, Len(q) - 1))
         IN IF InSeq(q[Len(q)], front) THEN front ELSE Append(front, q[Len(q)])

SpanNames(row) ==
    LET span == SubSeq(row, FirstMarkerCell(row), StopCell(row) - 1)
        texts == [k \in 1..Len(span) |->
                     IF Contains(Marker, span[k]) THEN Marker ELSE Strip(span[k])]
    IN Deduplicated(SelectSeq(texts, LAMBDA t : t # <<>> /\ ~IsExcluded(Lower(t))))

DescribedSchema(grid) ==
    LET rows == {r \in 1..Min(max_row, Len(grid)) : HasMarkerCell(grid[r])}
    IN IF rows = {} THEN <<>>
       ELSE SpanNames(grid[CHOOSE r \in rows : \A q \in rows : r <= q])

\* C3: for a template with the marker in a cell of one of its first three
\* rows, the schema is that of the first such row alone, from the marker cell
\* to the stop cell; cells left of the marker cell and cells of other rows
\* never contribute.
C3_SchemaSpan ==
    ( /\ idx > 0
      /\ template_file # None /\ records_file # None
      /\ template_file.readable
      /\ \E r \in 1..Min(max_row, Len(template_file.grid)) :
            HasMarkerCell(template_file.grid[r]) )
    => template_attributes = DescribedSchema(template_file.grid)

\* C4: the schema never holds a name twice, and the walk emits at most one
\* missing stat for a (class, template, attribute).
C4_UniqueNames ==
    /\ (idx > 0 /\ template_file # None /\ records_file # None)
           => NoDuplicates(template_attributes)
    /\ NoDuplicates(missing_stats)


\* C5: matching is equality of the trimmed texts and nothing else.  With the
\* labels of a readable records file: an attribute equal to a label is
\* matched; one that equals a label once both are trimmed is matched; one
\* that equals no label after trimming is missing, also when it equals a
\* label up to letter case.
C5_ExactMatch ==
    (Matched /\ records_file.readable) =>
        \A a \in Range(template_attributes) :
            LET labels == Range(records_file.header)
            IN /\ a \in labels => InSeq(a, matched_attrs)
               /\ (\E h \in labels : Strip(h) = Strip(a)) => InSeq(a, matched_attrs)
               /\ (\A h \in labels : Strip(h) # Strip(a))
                      => (~InSeq(a, matched_attrs) /\ InSeq(a, missing_attrs))
               /\ ( /\ \A h \in labels : Strip(h) # Strip(a)
                    /\ \E h \in labels : Lower(Strip(h)) = Lower(Strip(a)) )
                      => ~InSeq(a, matched_attrs)

\* A label with a trailing blank has matched, and a label in small letters
\* has not.
C5_Witness ==
    /\ Matched
    /\ records_file.header = << <<"Marka", " ">>, <<"tip">> >>
    /\ matched_attrs = <<Marka>>
    /\ InSeq(Tip, missing_attrs)

\* The texts that stand for no value.
Sentinels == {<<>>, <<"nan">>, <<"none">>, <<"null">>}

IsSentinel(text) == Lower(Strip(text)) \in Sentinels

\* The cell of data row `row` under the column that trims to attr.
CellOf(file, row, attr) ==
    row[CHOOSE i \in 1..Len(file.header) : Strip(file.header[i]) = attr]

\* The (row, attribute) pairs of the records file whose cell holds a value.
ValueCells(file, attrs) ==
    { <<r, a>> \in (1..Len(file.rows)) \X Range(attrs) :
        /\ CellOf(file, file.rows[r], a) # NA
        /\ ~IsSentinel(CellOf(file, file.rows[r], a)) }

\* C6: no extracted record, collapsed value or reference row holds a value
\* that trims and lower-cases to '', 'nan', 'none' or 'null'; and a data row
\* whose matched cells are all empty or such texts contributes no record:
\* the folder contributes one record per cell that holds a value.
C6_NoSentinelValues ==
    /\ \A i \in 1..Len(all_data) : ~IsSentinel(all_data[i].Znachenie)
    /\ \A i \in 1..Len(collapsed_data) :
           \A v \in collapsed_data[i].value : ~IsSentinel(v)
    /\ \A f \in DOMAIN temp_dir.references :
           \A i \in 1..Len(temp_dir.references[f]) :
               ~IsSentinel(temp_dir.references[f][i].Znachenie)
    /\ \A i \in 1..Len(values) : values[i] # <<>>
    /\ ( /\ Matched /\ idx = 1 /\ matched_attrs # <<>>
         /\ records_file.readable
         /\ NoDuplicates(record_columns) )
       => /\ Len(values) =
                Cardinality({c[1] : c \in ValueCells(records_file, matched_attrs)})
          /\ Len(all_data) = Cardinality(ValueCells(records_file, matched_attrs))

\* A row of a 'Null' text and a missing cell was dropped, and the row after
\* it gave its one value.
C6_Witness ==
    /\ Matched /\ idx = 1
    /\ records_file.rows = << << <<" ", "Null", " ">>, NA >>,
                              << <<" ", "ABV", " ">>, <<" ">> >> >>
    /\ Len(values) = 1
    /\ all_data = << [Atribut |-> Marka, Shablon |-> Nasos,
                      Klass |-> Oborudovanie, Znachenie |-> ABV] >>

\* The distinct values of attr among the extracted records.
ValuesOf(attr) ==
    {all_data[i].Znachenie : i \in {k \in 1..Len(all_data) : all_data[k].Atribut = attr}}

Attributes == {all_data[i].Atribut : i \in 1..Len(all_data)}

\* The output files are written.
Written == pc = "package" \/ (pc = "returned" /\ ret = Success)

\* C7: the collapsed values of an attribute are its distinct values over the
\* whole run, and the reference file of the attribute holds one row for each
\* of them, in ascending order.
C7_ReferenceRows ==
    Written =>
        \A attr \in Attributes :
            /\ DictHas(collapsed_data, attr)
            /\ DictGet(collapsed_data, attr) = ValuesOf(attr)
            /\ ReferenceFileName(attr) \in DOMAIN temp_dir.references
            /\ LET rows == temp_dir.references[ReferenceFileName(attr)]
               IN /\ {rows[i].Znachenie : i \in 1..Len(rows)} = ValuesOf(attr)
                  /\ Len(rows) = Cardinality(ValuesOf(attr))
                  /\ \A i \in 1..Len(rows) : rows[i].Atribut = attr
                  /\ \A i, j \in 1..Len(rows) :
                        i < j => StrLess(rows[i].Znachenie, rows[j].Znachenie)

RECURSIVE CountKeys(_)
CountKeys(created) ==
    IF created = <<>> THEN 0
    ELSE (IF Contains(<<"spravochniki", "/">>, Head(created).key) THEN 1 ELSE 0)
         + CountKeys(Tail(created))

\* C8: one reference file is written for each attribute that has a value,
\* and it holds the values of that attribute only.
C8_OneFilePerAttribute ==
    Written =>
        /\ Cardinality(DOMAIN temp_dir.references) = Cardinality(Attributes)
        /\ CountKeys(created_files) = Cardinality(Attributes)
        /\ \A attr \in Attributes :
              /\ ReferenceFileName(attr) \in DOMAIN temp_dir.references
              /\ LET rows == temp_dir.references[ReferenceFileName(attr)]
                 IN \A i \in 1..Len(rows) :
                       rows[i].Atribut = attr /\ rows[i].Znachenie \in ValuesOf(attr)

\* The folder holds no file whose lower-cased name contains the key.
Lacks(dir, key) ==
    \A k \in 1..Len(dir.kids) :
        ~(is_file(dir.kids[k]) /\ Contains(key, Lower(dir.kids[k].name)))

LacksAFile(dir) == Lacks(dir, TemplateKey) \/ Lacks(dir, RecordsKey)

\* C9: the pass over a template folder without a template file or without a
\* records file appends nothing to the extracted records and nothing to the
\* missing stats, and the walk goes on with the next folder; the run ends in
\* "no data" only if no folder gave a record or a missing stat, and ends
\* anywhere else only with every folder passed.
C9_SkipFolder ==
    /\ [][ (pc = "walk" /\ idx < Len(all_dirs)
                /\ LacksAFile(all_dirs[idx + 1].template_dir))
             => /\ all_data' = all_data
                /\ missing_stats' = missing_stats
                /\ idx' = idx + 1
                /\ pc' = "walk"
                /\ ret' = ret ]_vars
    /\ [](pc \in {"write", "package"} => idx = Len(all_dirs))
    /\ []((pc = "returned" /\ (all_data # <<>> \/ missing_stats # <<>>))
             => (idx = Len(all_dirs) /\ ret.report \in {"report", "critical"}))

\* A folder without a records file was passed before a folder that gave
\* records, and the run succeeded.
C9_Witness ==
    /\ pc = "returned" /\ ret = Success
    /\ Len(all_dirs) >= 2
    /\ Lacks(all_dirs[1].template_dir, RecordsKey)
    /\ ~Lacks(all_dirs[1].template_dir, TemplateKey)
    /\ all_data # <<>>

FatalMessages ==
    {"bad zip", "empty archive", "processing error", "no data", "critical"}

\* C10: once the workspace is created, every return that is not the success
\* leaves no workspace directory and no output archive, and returns
\* (None, an error message, no files); and the archive that is corrupt,
\* unreadable, empty, without a root or without data returns so.
C10_FatalCleanup ==
    (pc = "returned" /\ temp_dir.created) =>
        /\ \/ ret = Success /\ temp_dir.exists /\ temp_dir.zip
           \/ /\ ret.path = "None"
              /\ ret.files = <<>>
              /\ ret.report \in FatalMessages
              /\ ~temp_dir.exists
              /\ ~temp_dir.zip
              /\ temp_dir = [NoWorkspace EXCEPT !.created = TRUE]
        /\ ( \/ archive.kind # "zip"
             \/ archive.top = <<>>
             \/ ResolveRoot(archive.top) = None
             \/ (all_data = <<>> /\ missing_stats = <<>>) )
           => ret # Success

\* An exception after the output files were written: the run has returned
\* the critical error.
C10_Witness ==
    /\ pc = "returned"
    /\ temp_dir.created
    /\ ret = Failure("critical")
    /\ collapsed_data # <<>>

\* The archive opens and holds a root for the walk.
Walked ==
    /\ archive.given /\ archive.kind = "zip" /\ archive.top # <<>>
    /\ ResolveRoot(archive.top) # None

\* The records and missing stats one template folder gives.
FolderYield(d) ==
    LET picked == PickFiles(d.template_dir.kids, None, None)
        schema == extract_attributes_from_template(picked.template_file)
        m == match_attributes(schema, extract_columns_from_records(picked.records_file))
        vals == extract_values_from_records(picked.records_file, m.matched)
    IN IF HasBothFiles(picked.template_file, picked.records_file) /\ schema # <<>>
       THEN [all_data |-> IF m.matched # <<>>
                          THEN FormRecords(d.class_name, d.template_name, vals)
                          ELSE <<>>,
             missing_stats |-> MissingStats(d.class_name, d.template_name, m.missing)]
       ELSE [all_data |-> <<>>, missing_stats |-> <<>>]

\* The records and missing stats of the folders, each passed in turn.
RECURSIVE WalkYield(_)
WalkYield(dirs) ==
    IF dirs = <<>> THEN [all_data |-> <<>>, missing_stats |-> <<>>]
    ELSE LET first == FolderYield(Head(dirs))
             rest == WalkYield(Tail(dirs))
         IN [all_data |-> first.all_data \o rest.all_data,
             missing_stats |-> first.missing_stats \o rest.missing_stats]

\* C11: whatever the progress callback does (none given, one that raises at
\* some folder), a run whose archive has a root passes every template folder,
\* ends with the records and missing stats the folders give to a walk with a
\* callback that does nothing, and does not end in the processing error: it
\* ends in the no-data error only if the folders give nothing.
C11_ProgressNeverFails ==
    (pc = "returned" /\ Walked) =>
        LET dirs == CollectDirs(ResolveRoot(archive.top).kids)
            expected == WalkYield(dirs)
        IN /\ idx = Len(dirs)
           /\ all_data = expected.all_data
           /\ missing_stats = expected.missing_stats
           /\ ret.report # "processing error"
           /\ ret.report = "no data"
                 => (expected.all_data = <<>> /\ expected.missing_stats = <<>>)

\* The directories among the entries, in listing order.
TopDirs(items) == SelectSeq(items, is_dir)

\* No directory of the name 'Онтология ГРМ' at any depth.
NoGrmDir(items) == SelectSeq(RGlob(items, GrmName), is_dir) = <<>>

\* C12: in an archive without a directory named 'Онтология ГРМ' the walk is
\* over the first directory of the top level, wherever the listing puts it
\* among the files, and the run ends in the structure error only if the top
\* level holds no directory.
C12_RootResolution ==
    (archive.given /\ archive.kind = "zip" /\ archive.top # <<>>
        /\ NoGrmDir(archive.top)) =>
        /\ pc \in {"walk", "write", "package"}
              => /\ TopDirs(archive.top) # <<>>
                 /\ all_dirs = CollectDirs(TopDirs(archive.top)[1].kids)
        /\ (pc = "returned" /\ ret.report = "processing error")
              => TopDirs(archive.top) = <<>>

\* The file was found and the reading library raises on it.
Unreadable(file) == file # None /\ ~file.readable

\* C13: the pass over a folder whose template file cannot be read leaves the
\* schema empty and appends no record and no missing stat; the pass over a
\* folder whose records file cannot be read (its template giving a schema)
\* leaves the columns and the matched attributes empty and appends no
\* record; either pass ends, and the walk goes on with the next folder; and a
\* run whose archive has a root ends with every folder passed and never in
\* the processing error.
C13_ReadFailureLocal ==
    /\ [][ (pc = "walk" /\ idx < Len(all_dirs)) =>
             LET picked == PickFiles(all_dirs[idx + 1].template_dir.kids, None, None)
                 both == HasBothFiles(picked.template_file, picked.records_file)
             IN /\ (both /\ Unreadable(picked.template_file))
                      => /\ template_attributes' = <<>>
                         /\ all_data' = all_data
                         /\ missing_stats' = missing_stats
                         /\ idx' = idx + 1 /\ pc' = "walk" /\ ret' = ret
                /\ (both /\ ~Unreadable(picked.template_file)
                         /\ Unreadable(picked.records_file))
                      => /\ template_attributes' # <<>>
                            => (record_columns' = <<>> /\ matched_attrs' = <<>>)
                         /\ all_data' = all_data
                         /\ idx' = idx + 1 /\ pc' = "walk" /\ ret' = ret ]_vars
    /\ []((pc = "returned" /\ Walked)
             => (idx = Len(all_dirs) /\ ret.report # "processing error"))

\* A folder with a template file that cannot be read and a folder with a
\* records file that cannot be read were passed before a folder that gave
\* records, and the run succeeded.
C13_Witness ==
    /\ pc = "returned" /\ ret = Success
    /\ Len(all_dirs) = 3
    /\ Unreadable(PickFiles(all_dirs[1].template_dir.kids, None, None).template_file)
    /\ Unreadable(PickFiles(all_dirs[2].template_dir.kids, None, None).records_file)
    /\ \E i \in 1..Len(all_data) : all_data[i].Klass = Truby
    /\ \E i \in 1..Len(missing_stats) : missing_stats[i].Shablon = all_dirs[2].template_name

\* C14: the report for the i-th template folder is issued when the passes
\* over the folders 1..i have ended (the idx of the loop, the number of
\* passes ended, is then at least i), and carries i / total_dirs (as a
\* percentage); the fractions the sink is given lie in [0, 1] and never
\* decrease.
C14_ProgressAfterFolder ==
    /\ \A i \in 1..Len(callback_calls) :
          /\ callback_calls[i].idx >= i
          /\ FracEq(callback_calls[i].progress, Frac(100 * i, Len(all_dirs)))
    /\ \A i \in 1..Len(progress) :
          /\ FracLeq(Frac(0, 1), progress[i].fraction)
          /\ FracLeq(progress[i].fraction, Frac(1, 1))
    /\ \A i, j \in 1..Len(progress) :
          i <= j => FracLeq(progress[i].fraction, progress[j].fraction)

\* C14 as the code has it: the report for the i-th template folder is issued
\* at the head of its pass, before the folder is looked at, when the records
\* and missing stats are those of the folders 1..i-1 alone; it carries
\* i / total_dirs as a percentage, which the sink is given as
\* 0.2 + 0.6 * i / total_dirs; the fractions the sink is given lie in [0, 1]
\* and never decrease.
C14_ProgressBeforeFolder ==
    /\ [][ Len(callback_calls') > Len(callback_calls) =>
             LET i == Len(callback_calls')
                 earlier == WalkYield(SubSeq(all_dirs, 1, i - 1))
             IN /\ pc = "walk" /\ idx = i - 1 /\ idx' = i
                /\ callback_calls'[i].idx = idx
                /\ all_data = earlier.all_data
                /\ missing_stats = earlier.missing_stats
                /\ Len(progress') = Len(progress) + 1
                /\ SubSeq(progress', 1, Len(progress)) = progress
                /\ FracEq(progress'[Len(progress')].fraction,
                          Frac(2 * Len(all_dirs) + 6 * i, 10 * Len(all_dirs)))
                /\ progress'[Len(progress')].desc = callback_calls'[i].message ]_vars
    /\ [](\A i \in 1..Len(callback_calls) :
            /\ FracEq(callback_calls[i].progress, Frac(100 * i, Len(all_dirs)))
            /\ callback_calls[i].message
                  = Message(all_dirs[i].class_name, all_dirs[i].template_name))
    /\ [](\A i \in 1..Len(progress) :
            /\ FracLeq(Frac(0, 1), progress[i].fraction)
            /\ FracLeq(progress[i].fraction, Frac(1, 1)))
    /\ [](\A i, j \in 1..Len(progress) :
            i <= j => FracLeq(progress[i].fraction, progress[j].fraction))

\* Three folders were reported, the third gave the only records, and the run
\* succeeded with the sink at 1.
C14_Witness ==
    /\ pc = "returned" /\ ret = Success
    /\ Len(callback_calls) = 3
    /\ all_data # <<>>
    /\ \A i \in 1..Len(all_data) : all_data[i].Klass = Truby
    /\ FracEq(progress[Len(progress)].fraction, Frac(1, 1))

=============================================================================
